---- MODULE Spec2Model ----
(***************************************************************************)
(* Component-model type-section decoder of WasmEdge                        *)
(* (lib/loader/ast/comptype.cpp) as a state machine.                       *)
(*                                                                         *)
(* The decoder is a recursive descent over a byte cursor.  The model keeps *)
(* the C++ call stack explicit: one frame per active decoder call, one     *)
(* action per decoder function, one step of an action per stretch of code  *)
(* between two calls.  The input is supplied byte by byte by the           *)
(* environment when the decoder's next ByteStream read needs a byte that   *)
(* has not been supplied yet, so every byte sequence up to MaxLen bytes is *)
(* explored.                                                               *)
(***************************************************************************)
EXTENDS Integers, Sequences, FiniteSets, TLC

\* Longest input the environment supplies.
MaxLen == 5

\* Bytes the environment supplies.  At offset 0: every byte when the
\* definition type dispatcher is called, else LeadBytes; RestBytes later.
\* RestBytes: 0x00 0x01 0x11 0x42 0x7f 0x80; LeadBytes adds the declaration
\* discriminants and markers 0x02 0x03 0x04 0x50 0x60.
TagBytes == 0..255
RestBytes == {0, 1, 17, 66, 127, 128}
LeadBytes == RestBytes \cup {2, 3, 4, 80, 96}

VARIABLES
  input,     \* bytes of the buffer supplied so far
  eof,       \* TRUE once the buffer is known to end at Len(input)
  pos,       \* FMgr cursor: number of bytes consumed
  stack,     \* active decoder calls, innermost last
  ret,       \* Expect<> returned by the call that returned last
  status,    \* "running" | "done" | "crashed"
  entry,     \* the decoder the caller invoked
  firstErr,  \* kind of the first error raised in this decode, "None" before
  lateRead,  \* TRUE once the stream was read after the first error
  ubs        \* undefined operations executed so far

vars == <<input, eof, pos, stack, ret, status, entry, firstErr, lateRead, ubs>>

-----------------------------------------------------------------------------
(* Values *)

Nil == [k |-> "Nil"]
\* by, start: the call that returned and the offset it started at;
\* dec: for a vector decode, what the element loader decoded per element.
\* mark: for loadCase, the offset its terminator read started at.
NoRet ==
  [ok |-> TRUE, err |-> "None", val |-> Nil, by |-> "None", start |-> 0,
   dec |-> <<>>, mark |-> -1]
RetOk(v) == [NoRet EXCEPT !.val = v]
RetErr(e) == [NoRet EXCEPT !.ok = FALSE, !.err = e]

\* logLoadError(Code, Offset, Node) logs and returns Unexpect(Code).
logLoadError(code) == RetErr(code)

\* std::vector<T>: its size and the elements written so far; an element
\* not written yet holds T's default value.
EmptyVec == [k |-> "Vec", n |-> 0, items |-> <<>>]

LabelOf(s) == [k |-> "Label", s |-> s]
PrimValTy(p) == [k |-> "PrimValType", p |-> p]
TypeIndex(i) == [k |-> "TypeIndex", idx |-> i]
\* A default-constructed ValueType: the variant's first alternative,
\* value-initialised.
DefaultValueType == PrimValTy("ValueInit")
LabelValTy(l, t) == [k |-> "LabelValType", label |-> l, ty |-> t]
CaseOf(l, t) == [k |-> "Case", label |-> l, ty |-> t]
Wrap(kind, v) == [k |-> kind, val |-> v]
DefValType(alt, v) == [k |-> "DefType", alt |-> "DefValType", sub |-> alt, val |-> v]
DefTypeOf(alt, v) == [k |-> "DefType", alt |-> alt, sub |-> "None", val |-> v]

\* T{} for the element types vectors and options are instantiated with.
Default(el) ==
  CASE el = "loadType_ValueType" -> DefaultValueType
    [] el = "loadLabel" -> LabelOf(<<>>)
    [] el = "loadType_LabelValType" -> LabelValTy(<<>>, DefaultValueType)
    [] el = "loadCase" -> CaseOf(<<>>, Nil)
    [] OTHER -> [k |-> "Default", of |-> el]

-----------------------------------------------------------------------------
(* ByteStream (FMgr): reads over the bytes supplied so far *)

RdOk(v, p) == [ok |-> TRUE, err |-> "None", val |-> v, pos |-> p]
RdFail(e, p) == [ok |-> FALSE, err |-> e, val |-> 0, pos |-> p]

FMgr_readByte(p) ==
  IF p < Len(input) THEN RdOk(input[p + 1], p + 1)
  ELSE RdFail("UnexpectedEnd", p)

Pow2(n) == IF n = 0 THEN 1 ELSE IF n = 7 THEN 128 ELSE IF n = 14 THEN 16384
           ELSE IF n = 21 THEN 2097152 ELSE 268435456

\* Unsigned LEB128, at most 32 bits.
RECURSIVE Leb128U32(_, _, _)
Leb128U32(p, off, acc) ==
  IF off >= 32 THEN RdFail("IntegerTooLong", p)
  ELSE IF p >= Len(input) THEN RdFail("UnexpectedEnd", p)
  ELSE LET b == input[p + 1]
           r == acc + (b % 128) * Pow2(off)
       IN IF off = 28 /\ (b \div 16) % 8 # 0 THEN RdFail("IntegerTooLarge", p + 1)
          ELSE IF b >= 128 THEN Leb128U32(p + 1, off + 7, r)
          ELSE RdOk(r, p + 1)

FMgr_readU32(p) == Leb128U32(p, 0, 0)

IsCont(b) == b >= 128 /\ b < 192

RECURSIVE ValidUTF8(_)
ValidUTF8(s) ==
  IF s = <<>> THEN TRUE
  ELSE LET b == Head(s)
           need == IF b < 128 THEN 0
                   ELSE IF b >= 194 /\ b < 224 THEN 1
                   ELSE IF b >= 224 /\ b < 240 THEN 2
                   ELSE IF b >= 240 /\ b < 245 THEN 3
                   ELSE 4
       IN /\ need < 4
          /\ Len(s) > need
          /\ \A j \in 2..(need + 1) : IsCont(s[j])
          /\ ValidUTF8(SubSeq(s, need + 2, Len(s)))

\* A name: its byte length as a u32, then that many bytes of UTF-8.
FMgr_readName(p) ==
  LET l == FMgr_readU32(p) IN
  IF ~l.ok THEN l
  ELSE IF l.pos + l.val > Len(input) THEN RdFail("UnexpectedEnd", l.pos)
  ELSE LET s == SubSeq(input, l.pos + 1, l.pos + l.val) IN
       IF ValidUTF8(s) THEN RdOk(s, l.pos + l.val)
       ELSE RdFail("MalformedUTF8", l.pos)

\* After a failed expected-byte read the cursor is left undefined: the
\* mismatching byte was consumed (1) or not (0).
ExpectMismatchAdvance == {0, 1}

FMgr_readByteExpect(p, expected, adv) ==
  LET r == FMgr_readByte(p) IN
  IF ~r.ok THEN r
  ELSE IF r.val = expected THEN r
  ELSE RdFail("UnexpectedByte", p + adv)

\* A count as a u32, then that many raw bytes.
FMgr_readByteVec(p) ==
  LET l == FMgr_readU32(p) IN
  IF ~l.ok THEN l
  ELSE IF l.pos + l.val > Len(input) THEN RdFail("UnexpectedEnd", l.pos)
  ELSE RdOk(SubSeq(input, l.pos + 1, l.pos + l.val), l.pos + l.val)

DoRead(kind, p) ==
  CASE kind = "byte" -> FMgr_readByte(p)
    [] kind = "u32" -> FMgr_readU32(p)
    [] kind = "name" -> FMgr_readName(p)
    [] kind = "bytevec" -> FMgr_readByteVec(p)
    [] OTHER -> RdFail("NoRead", p)

-----------------------------------------------------------------------------
(* Call stack *)

NewFrame(fn, at) ==
  [fn |-> fn, pc |-> 0, start |-> at, v |-> Nil, n |-> 0,
   el |-> "None", byval |-> FALSE, w |-> <<>>]

\* A loadVec / loadOption call with its element loader; byval: the loader
\* lambda takes its argument by value.
NewFrameEl(fn, at, el, byval) ==
  [NewFrame(fn, at) EXCEPT !.el = el, !.byval = byval]

Top == stack[Len(stack)]
Pop == SubSeq(stack, 1, Len(stack) - 1)
Cont(f) == [stack EXCEPT ![Len(stack)] = f]
At(fn) == status = "running" /\ stack # <<>> /\ Top.fn = fn

Upd(ns, np, nr, raised, didRead, st, nub) ==
  /\ stack' = ns
  /\ pos' = np
  /\ ret' = nr
  /\ status' = st
  /\ firstErr' = IF firstErr = "None" THEN raised ELSE firstErr
  /\ lateRead' = (lateRead \/ (firstErr # "None" /\ didRead))
  /\ ubs' = nub
  /\ UNCHANGED <<input, eof, entry>>

\* Continue in the same call at f (f carries the new pc and locals).
Goto(f, np, didRead) == Upd(Cont(f), np, NoRet, "None", didRead, status, ubs)
\* Call callee; the caller resumes at f.
Call(f, callee, np, raised, didRead) ==
  Upd(Append(Cont(f), callee), np, NoRet, raised, didRead, status, ubs)
\* Return r to the caller (or to the user of the loader).
Return(r, np, raised, didRead) ==
  Upd(Pop, np, [r EXCEPT !.by = Top.fn, !.start = Top.start], raised, didRead,
      IF Len(stack) = 1 THEN "done" ELSE status, ubs)
\* return Unexpect(Res): hand the callee's error on.
Propagate == Return(RetErr(ret.err), pos, "None", FALSE)
\* Return the outcome r of a check made without reading.
Finish(r) == Return(r, pos, r.err, FALSE)
\* Call callee without reading; the caller resumes at pc.
Enter(pc, callee) == Call([Top EXCEPT !.pc = pc], callee, pos, "None", FALSE)

-----------------------------------------------------------------------------
(* Which ByteStream read the innermost call performs next *)

PendingRead(f) ==
  CASE f.fn = "loadLabel" -> IF f.pc = 0 THEN "u32" ELSE "name"
    [] f.fn = "loadType_ValueType" -> "byte"
    [] f.fn = "loadCase" /\ f.pc = 2 /\ ret.ok -> "u32"
    [] f.fn \in {"loadType_Own", "loadType_Borrow"} -> "u32"
    [] f.fn = "loadType_DefType" /\ f.pc = 0 -> "byte"
    [] f.fn = "loadComponentDecl" /\ f.pc = 0 -> "byte"
    [] f.fn = "loadType_ResultList" /\ f.pc = 0 -> "byte"
    [] f.fn = "loadInstanceDecl" /\ f.pc = 0 -> "byte"
    [] f.fn = "loadImportExportName" -> "name"
    [] f.fn = "loadExternDesc" -> IF f.pc = 2 THEN "u32" ELSE "byte"
    [] f.fn = "loadType_ModuleType" /\ f.pc = 0 -> "byte"
    [] f.fn = "loadModuleDecl" /\ f.pc = 0 -> "byte"
    [] f.fn = "loadVec" /\ f.pc = 0 -> "u32"
    [] f.fn = "loadOption" /\ f.pc = 0 -> "byte"
    [] f.fn \in {"loadAlias", "loadDesc"} -> "byte"
    [] f.fn = "loadType_FunctionType" -> IF f.pc = 0 THEN "byte" ELSE "bytevec"
    [] OTHER -> "none"

Rd == DoRead(PendingRead(Top), pos)

Alphabet(off) ==
  IF off > 0 THEN RestBytes
  ELSE IF entry = "loadType_DefType" THEN TagBytes ELSE LeadBytes

\* The read can be decided from the bytes supplied so far.
Ready(r) == r.ok \/ r.err # "UnexpectedEnd" \/ eof

Starved == status = "running" /\ stack # <<>> /\ PendingRead(Top) # "none" /\ ~Ready(Rd)

\* The environment supplies the next byte of the buffer, or ends it.
Supply ==
  /\ Starved
  /\ Len(input) < MaxLen
  /\ \E b \in Alphabet(Len(input)) : input' = Append(input, b)
  /\ UNCHANGED <<eof, pos, stack, ret, status, entry, firstErr, lateRead, ubs>>

SupplyEnd ==
  /\ Starved
  /\ eof' = TRUE
  /\ UNCHANGED <<input, pos, stack, ret, status, entry, firstErr, lateRead, ubs>>

-----------------------------------------------------------------------------
(* Labels and value types *)

loadLabel ==
  /\ At("loadLabel")
  /\ LET f == Top
         r == Rd
     IN /\ Ready(r)
        /\ IF f.pc = 0
           THEN IF r.ok
                THEN Goto([f EXCEPT !.pc = 1, !.n = r.val], r.pos, TRUE)
                ELSE Return(logLoadError("MalformedRecordType"), r.pos, r.err, TRUE)
           ELSE IF ~r.ok
                THEN Return(logLoadError("MalformedRecordType"), r.pos, r.err, TRUE)
                ELSE IF Len(r.val) # f.n
                THEN Return(logLoadError("MalformedRecordType"), r.pos,
                            "MalformedRecordType", TRUE)
                ELSE Return(RetOk(LabelOf(r.val)), r.pos, "None", TRUE)

IsPrimTag(b) == b >= 115 /\ b <= 127

loadType_PrimValType(Tag) ==
  CASE Tag = 127 -> "Bool"
    [] Tag = 126 -> "S8"
    [] Tag = 125 -> "U8"
    [] Tag = 124 -> "S16"
    [] Tag = 123 -> "U16"
    [] Tag = 122 -> "S32"
    [] Tag = 121 -> "U32"
    [] Tag = 120 -> "S64"
    [] Tag = 119 -> "U64"
    [] Tag = 118 -> "Float32"
    [] Tag = 117 -> "Float64"
    [] Tag = 116 -> "Char"
    [] Tag = 115 -> "String"
    [] OTHER -> "Uninit"

loadType_ValueType ==
  /\ At("loadType_ValueType")
  /\ LET r == Rd
     IN /\ Ready(r)
        /\ IF ~r.ok THEN Return(RetErr(r.err), r.pos, r.err, TRUE)
           ELSE IF IsPrimTag(r.val)
           THEN Return(RetOk(PrimValTy(loadType_PrimValType(r.val))), r.pos, "None", TRUE)
           ELSE Return(RetOk(TypeIndex(r.val)), r.pos, "None", TRUE)

loadType_LabelValType ==
  /\ At("loadType_LabelValType")
  /\ LET f == Top
     IN CASE f.pc = 0 ->
               Call([f EXCEPT !.pc = 1], NewFrame("loadLabel", pos), pos, "None", FALSE)
          [] f.pc = 1 ->
               IF ~ret.ok THEN Propagate
               ELSE Call([f EXCEPT !.pc = 2, !.v = LabelValTy(ret.val.s, DefaultValueType)],
                         NewFrame("loadType_ValueType", pos), pos, "None", FALSE)
          [] OTHER ->
               IF ~ret.ok THEN Propagate
               ELSE Return(RetOk(LabelValTy(f.v.label, ret.val)), pos, "None", FALSE)

-----------------------------------------------------------------------------
(* loadVec<T>(Vec, Func) and loadOption<T>(Func) *)

\* Func(Vec[I]): what the element holds after its loader returned val.
\* A loader lambda declared with a by-value parameter decodes into its own
\* copy; the vector's element keeps its default value.
StoreElem(f, val) == IF f.byval THEN Default(f.el) ELSE val

loadVec ==
  /\ At("loadVec")
  /\ LET f == Top
     IN IF f.pc = 0
        THEN LET r == Rd
             IN /\ Ready(r)
                /\ IF ~r.ok THEN Return(logLoadError(r.err), r.pos, r.err, TRUE)
                   ELSE IF r.val = 0
                   THEN Return(RetOk(EmptyVec), r.pos, "None", TRUE)
                   ELSE Call([f EXCEPT !.pc = 1, !.n = r.val,
                                       !.v = [EmptyVec EXCEPT !.n = r.val]],
                             NewFrame(f.el, r.pos), r.pos, "None", TRUE)
        ELSE IF ~ret.ok THEN Propagate
             ELSE LET v2 == [f.v EXCEPT !.items = Append(@, StoreElem(f, ret.val))]
                      w2 == Append(f.w, ret.val)
                  IN IF Len(v2.items) < f.n
                     THEN Call([f EXCEPT !.v = v2, !.w = w2], NewFrame(f.el, pos),
                               pos, "None", FALSE)
                     ELSE Return([RetOk(v2) EXCEPT !.dec = w2], pos, "None", FALSE)

\* T V; Func(V); return V: what the optional holds.
OptionValue(f, val) == IF f.byval THEN Default(f.el) ELSE val

loadOption ==
  /\ At("loadOption")
  /\ LET f == Top
     IN IF f.pc = 0
        THEN LET r == Rd
             IN /\ Ready(r)
                /\ IF ~r.ok THEN Return(RetErr(r.err), r.pos, r.err, TRUE)
                   ELSE IF r.val = 0
                   THEN Return(RetOk(Wrap("Optional", Nil)), r.pos, "None", TRUE)
                   ELSE IF r.val = 1
                   THEN Call([f EXCEPT !.pc = 1], NewFrame(f.el, r.pos), r.pos,
                             "None", TRUE)
                   ELSE Return(logLoadError("MalformedDefType"), r.pos,
                               "MalformedDefType", TRUE)
        ELSE IF ~ret.ok THEN Propagate
             ELSE Return([RetOk(Wrap("Optional", OptionValue(f, ret.val)))
                            EXCEPT !.dec = <<ret.val>>], pos, "None", FALSE)

-----------------------------------------------------------------------------
(* Composite value types *)

\* The by-value parameter of every loader lambda in comptype.cpp.
LambdaByValue == TRUE

VecOf(el) == NewFrameEl("loadVec", pos, el, LambdaByValue)
OptionOf(el) == NewFrameEl("loadOption", pos, el, LambdaByValue)

\* Mutant of RecordResult: the emptiness check dropped.
RecordResult_NoCheck(vec) == RetOk(Wrap("Record", vec))

RecordResult(vec) ==
  IF vec.n > 0 THEN RetOk(Wrap("Record", vec))
  ELSE logLoadError("MalformedRecordType")

loadType_Record ==
  /\ At("loadType_Record")
  /\ IF Top.pc = 0 THEN Enter(1, VecOf("loadType_LabelValType"))
     ELSE IF ret.ok THEN Finish([RecordResult(ret.val) EXCEPT !.dec = ret.dec])
     ELSE Propagate

\* The terminator read of loadCase.
CaseTerminator(p) == FMgr_readU32(p)

loadCase ==
  /\ At("loadCase")
  /\ LET f == Top
     IN CASE f.pc = 0 -> Enter(1, NewFrame("loadLabel", pos))
          [] f.pc = 1 ->
               IF ~ret.ok THEN Propagate
               ELSE Call([f EXCEPT !.pc = 2, !.v = CaseOf(ret.val.s, Nil)],
                         OptionOf("loadType_ValueType"), pos, "None", FALSE)
          [] OTHER ->
               IF ~ret.ok THEN Propagate
               ELSE LET r == CaseTerminator(pos)
                    IN /\ Ready(r)
                       /\ IF ~r.ok
                          THEN Return([RetErr(r.err) EXCEPT !.mark = pos], r.pos, r.err, TRUE)
                          ELSE IF r.val # 0
                          THEN Return([logLoadError("MalformedVariantType")
                                         EXCEPT !.mark = pos],
                                      r.pos, "MalformedVariantType", TRUE)
                          ELSE Return([RetOk(CaseOf(f.v.label, ret.val))
                                         EXCEPT !.mark = pos], r.pos, "None", TRUE)

VariantResult(vec) == RetOk(Wrap("VariantTy", vec))

loadType_VariantTy ==
  /\ At("loadType_VariantTy")
  /\ IF Top.pc = 0 THEN Enter(1, VecOf("loadCase"))
     ELSE IF ret.ok THEN Finish([VariantResult(ret.val) EXCEPT !.dec = ret.dec])
     ELSE Propagate

loadType_List ==
  /\ At("loadType_List")
  /\ IF Top.pc = 0 THEN Enter(1, NewFrame("loadType_ValueType", pos))
     ELSE IF ret.ok THEN Finish(RetOk(Wrap("List", ret.val)))
     ELSE Propagate

TupleResult(vec) ==
  IF vec.n = 0 THEN logLoadError("MalformedTupleType")
  ELSE RetOk(Wrap("Tuple", vec))

loadType_Tuple ==
  /\ At("loadType_Tuple")
  /\ IF Top.pc = 0 THEN Enter(1, VecOf("loadType_ValueType"))
     ELSE IF ret.ok THEN Finish([TupleResult(ret.val) EXCEPT !.dec = ret.dec])
     ELSE Propagate

FlagsResult(vec) ==
  IF vec.n = 0 THEN logLoadError("MalformedFlagsType")
  ELSE RetOk(Wrap("Flags", vec))

loadType_Flags ==
  /\ At("loadType_Flags")
  /\ IF Top.pc = 0 THEN Enter(1, VecOf("loadLabel"))
     ELSE IF ret.ok THEN Finish([FlagsResult(ret.val) EXCEPT !.dec = ret.dec])
     ELSE Propagate

EnumResult(vec) == RetOk(Wrap("Enum", vec))

loadType_Enum ==
  /\ At("loadType_Enum")
  /\ IF Top.pc = 0 THEN Enter(1, VecOf("loadLabel"))
     ELSE IF ret.ok THEN Finish([EnumResult(ret.val) EXCEPT !.dec = ret.dec])
     ELSE Propagate

loadType_Option ==
  /\ At("loadType_Option")
  /\ IF Top.pc = 0 THEN Enter(1, NewFrame("loadType_ValueType", pos))
     ELSE IF ret.ok THEN Finish(RetOk(Wrap("Option", ret.val)))
     ELSE Propagate

loadType_Result ==
  /\ At("loadType_Result")
  /\ LET f == Top
     IN CASE f.pc = 0 -> Enter(1, OptionOf("loadType_ValueType"))
          [] f.pc = 1 ->
               IF ~ret.ok THEN Propagate
               ELSE Call([f EXCEPT !.pc = 2, !.v = ret.val],
                         OptionOf("loadType_ValueType"), pos, "None", FALSE)
          [] OTHER ->
               IF ~ret.ok THEN Propagate
               ELSE Finish(RetOk([k |-> "Result", val |-> f.v, errTy |-> ret.val]))

loadType_Own ==
  /\ At("loadType_Own")
  /\ LET r == Rd
     IN /\ Ready(r)
        /\ IF r.ok THEN Return(RetOk([k |-> "Own", idx |-> r.val]), r.pos, "None", TRUE)
           ELSE Return(RetErr(r.err), r.pos, r.err, TRUE)

loadType_Borrow ==
  /\ At("loadType_Borrow")
  /\ LET r == Rd
     IN /\ Ready(r)
        /\ IF r.ok THEN Return(RetOk([k |-> "Borrow", idx |-> r.val]), r.pos, "None", TRUE)
           ELSE Return(RetErr(r.err), r.pos, r.err, TRUE)

-----------------------------------------------------------------------------
(* Definition type dispatcher *)

\* Mutant of DefTypeCase: the unassigned tag 0x6c takes the enum case.
DefTypeCase_Tag6c(tag) ==
  CASE IsPrimTag(tag) -> "PrimValType"
    [] tag = 114 -> "loadType_Record"
    [] tag = 113 -> "loadType_VariantTy"
    [] tag = 112 -> "loadType_List"
    [] tag = 111 -> "loadType_Tuple"
    [] tag = 110 -> "loadType_Flags"
    [] tag \in {108, 109} -> "loadType_Enum"
    [] tag = 107 -> "loadType_Option"
    [] tag = 106 -> "loadType_Result"
    [] tag = 105 -> "loadType_Own"
    [] tag = 104 -> "loadType_Borrow"
    [] tag = 64 -> "loadType_FuncType"
    [] tag = 65 -> "loadType_ComponentType"
    [] tag = 66 -> "loadType_InstanceType"
    [] OTHER -> "default"

\* The switch of loadType(DefType &): the case a tag byte selects, named by
\* the decoder the case runs.
DefTypeCase(tag) ==
  CASE IsPrimTag(tag) -> "PrimValType"
    [] tag = 114 -> "loadType_Record"
    [] tag = 113 -> "loadType_VariantTy"
    [] tag = 112 -> "loadType_List"
    [] tag = 111 -> "loadType_Tuple"
    [] tag = 110 -> "loadType_Flags"
    [] tag = 109 -> "loadType_Enum"
    [] tag = 107 -> "loadType_Option"
    [] tag = 106 -> "loadType_Result"
    [] tag = 105 -> "loadType_Own"
    [] tag = 104 -> "loadType_Borrow"
    [] tag = 64 -> "loadType_FuncType"
    [] tag = 65 -> "loadType_ComponentType"
    [] tag = 66 -> "loadType_InstanceType"
    [] OTHER -> "default"

\* Ty.emplace<...>(V): the alternative the case leaves active.
DefTypeEmplace(case, v) ==
  CASE case = "loadType_FuncType" -> DefTypeOf("FuncType", v)
    [] case = "loadType_ComponentType" -> DefTypeOf("ComponentType", v)
    [] case = "loadType_InstanceType" -> DefTypeOf("InstanceType", v)
    [] OTHER -> DefValType(v.k, v)

loadType_DefType ==
  /\ At("loadType_DefType")
  /\ LET f == Top
     IN IF f.pc = 0
        THEN LET r == Rd
                 c == DefTypeCase(r.val)
             IN /\ Ready(r)
                /\ IF ~r.ok THEN Return(RetErr(r.err), r.pos, r.err, TRUE)
                   ELSE IF c = "PrimValType"
                   THEN Return(RetOk(DefTypeEmplace(c, PrimValTy(loadType_PrimValType(r.val)))),
                               r.pos, "None", TRUE)
                   ELSE IF c = "default"
                   THEN Return(logLoadError("MalformedDefType"), r.pos,
                               "MalformedDefType", TRUE)
                   ELSE Call([f EXCEPT !.pc = 1, !.n = r.val], NewFrame(c, r.pos),
                             r.pos, "None", TRUE)
        ELSE IF ~ret.ok THEN Propagate
             ELSE Finish(RetOk(DefTypeEmplace(DefTypeCase(f.n), ret.val)))

-----------------------------------------------------------------------------
(* Function, component and instance types and their declarations *)

loadType_ComponentType ==
  /\ At("loadType_ComponentType")
  /\ IF Top.pc = 0 THEN Enter(1, VecOf("loadComponentDecl"))
     ELSE IF ret.ok THEN Finish([RetOk(Wrap("ComponentType", ret.val)) EXCEPT !.dec = ret.dec])
     ELSE Propagate

loadComponentDecl ==
  /\ At("loadComponentDecl")
  /\ LET f == Top
     IN IF f.pc = 0
        THEN \E adv \in ExpectMismatchAdvance :
               LET r == FMgr_readByteExpect(pos, 3, adv)
               IN /\ Ready(r)
                  /\ IF r.ok
                     THEN Call([f EXCEPT !.pc = 1], NewFrame("loadImportDecl", r.pos),
                               r.pos, "None", TRUE)
                     ELSE Call([f EXCEPT !.pc = 1], NewFrame("loadInstanceDecl", r.pos),
                               r.pos, r.err, TRUE)
        ELSE IF ret.ok THEN Finish(RetOk(Wrap("ComponentDecl", ret.val)))
             ELSE Propagate

loadImportDecl ==
  /\ At("loadImportDecl")
  /\ LET f == Top
     IN CASE f.pc = 0 -> Enter(1, NewFrame("loadImportExportName", pos))
          [] f.pc = 1 ->
               IF ~ret.ok THEN Propagate
               ELSE Call([f EXCEPT !.pc = 2, !.v = ret.val],
                         NewFrame("loadExternDesc", pos), pos, "None", FALSE)
          [] OTHER ->
               IF ~ret.ok THEN Propagate
               ELSE Finish(RetOk([k |-> "ImportDecl", name |-> f.v, desc |-> ret.val]))

loadType_ResultList ==
  /\ At("loadType_ResultList")
  /\ LET f == Top
     IN IF f.pc = 0
        THEN LET r == Rd
             IN /\ Ready(r)
                /\ IF ~r.ok THEN Return(RetErr(r.err), r.pos, r.err, TRUE)
                   ELSE IF r.val = 0
                   THEN Call([f EXCEPT !.pc = 1], NewFrame("loadType_ValueType", r.pos),
                             r.pos, "None", TRUE)
                   ELSE IF r.val = 1
                   THEN Call([f EXCEPT !.pc = 1],
                             NewFrameEl("loadVec", r.pos, "loadType_LabelValType",
                                        LambdaByValue),
                             r.pos, "None", TRUE)
                   ELSE Return(logLoadError("MalformedDefType"), r.pos,
                               "MalformedDefType", TRUE)
        ELSE IF ~ret.ok THEN Propagate
             ELSE Finish(RetOk(Wrap("ResultList", ret.val)))

loadType_FuncType ==
  /\ At("loadType_FuncType")
  /\ LET f == Top
     IN CASE f.pc = 0 -> Enter(1, VecOf("loadType_LabelValType"))
          [] f.pc = 1 ->
               IF ~ret.ok THEN Propagate
               ELSE Call([f EXCEPT !.pc = 2, !.v = ret.val],
                         NewFrame("loadType_ResultList", pos), pos, "None", FALSE)
          [] OTHER ->
               IF ~ret.ok THEN Propagate
               ELSE Finish(RetOk([k |-> "FuncType", params |-> f.v, results |-> ret.val]))

loadType_InstanceType ==
  /\ At("loadType_InstanceType")
  /\ IF Top.pc = 0 THEN Enter(1, VecOf("loadInstanceDecl"))
     ELSE IF ret.ok THEN Finish([RetOk(Wrap("InstanceType", ret.val)) EXCEPT !.dec = ret.dec])
     ELSE Propagate

\* Dereferencing a null std::shared_ptr is undefined: the process faults,
\* or the callee runs on whatever the reference happens to denote.
NullDerefOutcomes == {"crash", "proceed"}

\* T->getType() with T a null shared_ptr, then the call of callee on it.
NullDeref(what, f, callee, np) ==
  \E o \in NullDerefOutcomes :
    IF o = "crash"
    THEN Upd(stack, np, NoRet, "None", TRUE, "crashed", ubs \cup {what})
    ELSE Upd(Append(Cont(f), callee), np, NoRet, "None", TRUE, status, ubs \cup {what})

NullPtr == [k |-> "shared_ptr", ptr |-> "null"]

loadInstanceDecl ==
  /\ At("loadInstanceDecl")
  /\ LET f == Top
     IN CASE f.pc = 0 ->
               LET r == Rd
               IN /\ Ready(r)
                  /\ CASE ~r.ok -> Return(RetErr(r.err), r.pos, r.err, TRUE)
                       [] r.ok /\ r.val = 0 ->
                            Return(logLoadError("MalformedDefType"), r.pos,
                                   "MalformedDefType", TRUE)
                       [] r.ok /\ r.val = 1 ->
                            NullDeref("null shared_ptr<Type>", [f EXCEPT !.pc = 1],
                                      NewFrame("loadType_DefType", r.pos), r.pos)
                       [] r.ok /\ r.val = 2 ->
                            Call([f EXCEPT !.pc = 2], NewFrame("loadAlias", r.pos),
                                 r.pos, "None", TRUE)
                       [] r.ok /\ r.val = 4 ->
                            Call([f EXCEPT !.pc = 3], NewFrame("loadImportExportName", r.pos),
                                 r.pos, "None", TRUE)
                       [] OTHER ->
                            Return(logLoadError("MalformedDefType"), r.pos,
                                   "MalformedDefType", TRUE)
          [] f.pc = 1 ->
               IF ~ret.ok THEN Propagate
               ELSE Finish(RetOk(Wrap("InstanceDecl", NullPtr)))
          [] f.pc = 2 ->
               IF ~ret.ok THEN Propagate
               ELSE Finish(RetOk(Wrap("InstanceDecl", ret.val)))
          [] f.pc = 3 ->
               IF ~ret.ok THEN Propagate
               ELSE Call([f EXCEPT !.pc = 4, !.v = ret.val],
                         NewFrame("loadExternDesc", pos), pos, "None", FALSE)
          [] OTHER ->
               IF ~ret.ok THEN Propagate
               ELSE Finish(RetOk(Wrap("InstanceDecl",
                              [k |-> "ExportDecl", name |-> f.v, desc |-> ret.val])))

loadImportExportName ==
  /\ At("loadImportExportName")
  /\ LET r == Rd
     IN /\ Ready(r)
        /\ IF ~r.ok THEN Return(RetErr(r.err), r.pos, r.err, TRUE)
           ELSE Return(RetOk(LabelOf(r.val)), r.pos, "None", TRUE)

loadExternDesc ==
  /\ At("loadExternDesc")
  /\ LET f == Top
     IN CASE f.pc = 0 ->
               \E adv \in ExpectMismatchAdvance :
                 LET r == FMgr_readByteExpect(pos, 0, adv)
                 IN /\ Ready(r)
                    /\ IF ~r.ok THEN Return(RetErr(r.err), r.pos, r.err, TRUE)
                       ELSE Goto([f EXCEPT !.pc = 1], r.pos, TRUE)
          [] f.pc = 1 ->
               \E adv \in ExpectMismatchAdvance :
                 LET r == FMgr_readByteExpect(pos, 17, adv)
                 IN /\ Ready(r)
                    /\ IF ~r.ok THEN Return(RetErr(r.err), r.pos, r.err, TRUE)
                       ELSE Goto([f EXCEPT !.pc = 2], r.pos, TRUE)
          [] OTHER ->
               LET r == Rd
               IN /\ Ready(r)
                  /\ IF ~r.ok THEN Return(RetErr(r.err), r.pos, r.err, TRUE)
                     ELSE Return(RetOk([k |-> "ExternDesc", idx |-> r.val]), r.pos,
                                 "None", TRUE)

-----------------------------------------------------------------------------
(* Core types *)

loadType_CoreType ==
  /\ At("loadType_CoreType")
  /\ IF Top.pc = 0 THEN Enter(1, NewFrame("loadType_CoreDefType", pos))
     ELSE IF ret.ok THEN Finish(RetOk(Wrap("CoreType", ret.val)))
     ELSE Propagate

loadType_CoreDefType ==
  /\ At("loadType_CoreDefType")
  /\ LET f == Top
     IN CASE f.pc = 0 -> Enter(1, NewFrame("loadType_FunctionType", pos))
          [] f.pc = 1 ->
               IF ret.ok THEN Finish(RetOk([k |-> "CoreDefType", alt |-> "FunctionType",
                                            val |-> ret.val]))
               ELSE Enter(2, NewFrame("loadType_ModuleType", pos))
          [] OTHER ->
               IF ret.ok THEN Finish(RetOk([k |-> "CoreDefType", alt |-> "ModuleType",
                                            val |-> ret.val]))
               ELSE Propagate

loadType_ModuleType ==
  /\ At("loadType_ModuleType")
  /\ LET f == Top
     IN IF f.pc = 0
        THEN \E adv \in ExpectMismatchAdvance :
               LET r == FMgr_readByteExpect(pos, 80, adv)
               IN /\ Ready(r)
                  /\ IF ~r.ok THEN Return(logLoadError(r.err), r.pos, r.err, TRUE)
                     ELSE Call([f EXCEPT !.pc = 1],
                               NewFrameEl("loadVec", r.pos, "loadModuleDecl", LambdaByValue),
                               r.pos, "None", TRUE)
        ELSE IF ~ret.ok THEN Propagate
             ELSE Finish([RetOk(Wrap("ModuleType", ret.val)) EXCEPT !.dec = ret.dec])

\* RTag.error() read from an Expect that holds a value is undefined: the
\* error code returned is whatever the storage holds.
ErrorOfValueOutcomes ==
  {"Garbage", "UnexpectedEnd", "MalformedDefType"}

loadModuleDecl ==
  /\ At("loadModuleDecl")
  /\ LET f == Top
     IN IF f.pc = 0
        THEN LET r == Rd
             IN /\ Ready(r)
                /\ CASE ~r.ok -> Return(logLoadError(r.err), r.pos, r.err, TRUE)
                     [] r.ok /\ r.val = 0 ->
                          Call([f EXCEPT !.pc = 1], NewFrame("loadDesc", r.pos),
                               r.pos, "None", TRUE)
                     [] r.ok /\ r.val = 1 ->
                          NullDeref("null shared_ptr<CoreType>", [f EXCEPT !.pc = 1],
                                    NewFrame("loadType_CoreDefType", r.pos), r.pos)
                     [] r.ok /\ r.val = 2 ->
                          Call([f EXCEPT !.pc = 1], NewFrame("loadAlias", r.pos),
                               r.pos, "None", TRUE)
                     [] r.ok /\ r.val = 3 ->
                          Call([f EXCEPT !.pc = 1], NewFrame("loadExportDecl", r.pos),
                               r.pos, "None", TRUE)
                     [] OTHER ->
                          \E e \in ErrorOfValueOutcomes :
                            Upd(Pop, r.pos,
                                [RetErr(e) EXCEPT !.by = f.fn, !.start = f.start],
                                e, TRUE, IF Len(stack) = 1 THEN "done" ELSE status,
                                ubs \cup {"error() of a value"})
        ELSE IF ~ret.ok THEN Propagate
             ELSE Finish(RetOk(Wrap("ModuleDecl", ret.val)))

loadExportDecl ==
  /\ At("loadExportDecl")
  /\ LET f == Top
     IN CASE f.pc = 0 -> Enter(1, NewFrame("loadImportExportName", pos))
          [] f.pc = 1 ->
               IF ~ret.ok THEN Finish(logLoadError(ret.err))
               ELSE Call([f EXCEPT !.pc = 2, !.v = ret.val], NewFrame("loadDesc", pos),
                         pos, "None", FALSE)
          [] OTHER ->
               IF ~ret.ok THEN Propagate
               ELSE Finish(RetOk([k |-> "CoreExportDecl", name |-> f.v, desc |-> ret.val]))

-----------------------------------------------------------------------------
(* Decoders of other files of the loader *)

\* An alias: its sort byte stands for the whole encoding.
loadAlias ==
  /\ At("loadAlias")
  /\ LET r == Rd
     IN /\ Ready(r)
        /\ IF ~r.ok THEN Return(RetErr(r.err), r.pos, r.err, TRUE)
           ELSE Return(RetOk([k |-> "Alias", sort |-> r.val]), r.pos, "None", TRUE)

\* An import descriptor: its leading byte stands for the whole encoding.
loadDesc ==
  /\ At("loadDesc")
  /\ LET r == Rd
     IN /\ Ready(r)
        /\ IF ~r.ok THEN Return(RetErr(r.err), r.pos, r.err, TRUE)
           ELSE Return(RetOk([k |-> "ImportDesc", b |-> r.val]), r.pos, "None", TRUE)

\* A core function type: 0x60, the parameter types, the result types.
loadType_FunctionType ==
  /\ At("loadType_FunctionType")
  /\ LET f == Top
         r == Rd
     IN /\ Ready(r)
        /\ CASE f.pc = 0 ->
                  IF ~r.ok THEN Return(logLoadError(r.err), r.pos, r.err, TRUE)
                  ELSE IF r.val # 96
                  THEN Return(logLoadError("IntegerTooLong"), r.pos, "IntegerTooLong", TRUE)
                  ELSE Goto([f EXCEPT !.pc = 1], r.pos, TRUE)
             [] f.pc = 1 ->
                  IF ~r.ok THEN Return(logLoadError(r.err), r.pos, r.err, TRUE)
                  ELSE Goto([f EXCEPT !.pc = 2, !.v = LabelOf(r.val)], r.pos, TRUE)
             [] OTHER ->
                  IF ~r.ok THEN Return(logLoadError(r.err), r.pos, r.err, TRUE)
                  ELSE Return(RetOk([k |-> "FunctionType", params |-> f.v.s,
                                     results |-> r.val]), r.pos, "None", TRUE)

-----------------------------------------------------------------------------
(* The loader *)

\* The decoders the loader's user calls on a buffer: the dispatcher, the
\* core type decoder, and the declaration and composite decoders on their own.
Entries ==
  {"loadType_DefType", "loadType_CoreType", "loadComponentDecl", "loadInstanceDecl",
   "loadModuleDecl", "loadLabel", "loadCase", "loadType_Record", "loadType_VariantTy",
   "loadType_Tuple", "loadType_Flags", "loadType_Enum"}

Init ==
  /\ input = <<>>
  /\ eof = FALSE
  /\ pos = 0
  /\ entry \in Entries
  /\ stack = <<NewFrame(entry, 0)>>
  /\ ret = NoRet
  /\ status = "running"
  /\ firstErr = "None"
  /\ lateRead = FALSE
  /\ ubs = {}

Next ==
  \/ Supply
  \/ SupplyEnd
  \/ loadLabel
  \/ loadType_ValueType
  \/ loadType_LabelValType
  \/ loadVec
  \/ loadOption
  \/ loadType_Record
  \/ loadCase
  \/ loadType_VariantTy
  \/ loadType_List
  \/ loadType_Tuple
  \/ loadType_Flags
  \/ loadType_Enum
  \/ loadType_Option
  \/ loadType_Result
  \/ loadType_Own
  \/ loadType_Borrow
  \/ loadType_DefType
  \/ loadType_ComponentType
  \/ loadComponentDecl
  \/ loadImportDecl
  \/ loadType_ResultList
  \/ loadType_FuncType
  \/ loadType_InstanceType
  \/ loadInstanceDecl
  \/ loadImportExportName
  \/ loadExternDesc
  \/ loadType_CoreType
  \/ loadType_CoreDefType
  \/ loadType_ModuleType
  \/ loadModuleDecl
  \/ loadExportDecl
  \/ loadAlias
  \/ loadDesc
  \/ loadType_FunctionType

Spec == Init /\ [][Next]_vars

-----------------------------------------------------------------------------
(* Properties *)

\* Nesting depth of the definition type dispatcher.
DispatcherDepth == Cardinality({i \in 1..Len(stack) : stack[i].fn = "loadType_DefType"})

\* A maximum nesting depth a caller would configure.
ConfiguredMaxDepth == 1

TypedErrors ==
  {"MalformedRecordType", "MalformedVariantType", "MalformedTupleType",
   "MalformedFlagsType", "MalformedDefType", "UnexpectedEnd", "UnexpectedByte",
   "MalformedUTF8", "IntegerTooLong", "IntegerTooLarge"}

\* C1: every decode ends by returning a value or a typed error; no path
\* uses a node that was never allocated (InstanceDecl 0x01, ModuleDecl 0x01)
\* and no path reads the error of a read that succeeded (ModuleDecl with a
\* discriminant outside 0x00..0x03).
C1_NoUndefinedOperation ==
  /\ ubs = {}
  /\ status # "crashed"
  /\ status = "done" => (ret.ok \/ ret.err \in TypedErrors)

\* The stored value type is the decoded one.  A default-constructed value
\* type holds a value-initialised primitive, which is taken to equal any
\* decoded primitive.
SameValueType(stored, decoded) ==
  \/ stored = decoded
  \/ stored = DefaultValueType /\ decoded.k = "PrimValType"

\* C2: a record decoded successfully holds exactly the N fields of the
\* encoding, the i-th entry carrying the label and the value type of the
\* i-th encoded field.
C2_RecordKeepsFields ==
  (ret.by = "loadType_Record" /\ ret.ok) =>
    /\ ret.val.val.n = Len(ret.dec)
    /\ Len(ret.val.val.items) = Len(ret.dec)
    /\ \A i \in 1..Len(ret.dec) :
         /\ ret.val.val.items[i].label = ret.dec[i].label
         /\ SameValueType(ret.val.val.items[i].ty, ret.dec[i].ty)

\* C3: once label and optional value type of a case are decoded, a
\* terminator byte in 0x01..0xFF fails with MalformedVariantType, and the
\* case succeeds only on the terminator byte 0x00, which is one byte long.
C3_CaseTerminator ==
  (ret.by = "loadCase" /\ ret.mark >= 0 /\ ret.mark < Len(input)) =>
    /\ input[ret.mark + 1] # 0 => (~ret.ok /\ ret.err = "MalformedVariantType")
    /\ ret.ok => (input[ret.mark + 1] = 0 /\ pos = ret.mark + 1)

\* C4: the first error raised anywhere is the error the decode returns,
\* with the same kind, and after it nothing more is read.
C4_FailFast ==
  firstErr # "None" =>
    /\ ~lateRead
    /\ status = "done" => (~ret.ok /\ ret.err = firstErr)

\* The tag table of the definition type dispatcher as the claim states it.
TablePrim(b) ==
  CASE b = 127 -> "Bool" [] b = 126 -> "S8" [] b = 125 -> "U8" [] b = 124 -> "S16"
    [] b = 123 -> "U16" [] b = 122 -> "S32" [] b = 121 -> "U32" [] b = 120 -> "S64"
    [] b = 119 -> "U64" [] b = 118 -> "Float32" [] b = 117 -> "Float64"
    [] b = 116 -> "Char" [] b = 115 -> "String" [] OTHER -> "none"

TableKind(b) ==
  CASE b = 114 -> "Record" [] b = 113 -> "VariantTy" [] b = 112 -> "List"
    [] b = 111 -> "Tuple" [] b = 110 -> "Flags" [] b = 109 -> "Enum"
    [] b = 107 -> "Option" [] b = 106 -> "Result" [] b = 105 -> "Own"
    [] b = 104 -> "Borrow" [] b = 64 -> "FuncType" [] b = 65 -> "ComponentType"
    [] b = 66 -> "InstanceType" [] OTHER -> "none"

TableDecoder(b) == IF TableKind(b) = "none" THEN "none" ELSE "loadType_" \o TableKind(b)

\* C5: the dispatcher selects exactly the production of the tag table:
\* a primitive tag gives the matching primitive and consumes the tag byte
\* only, a composite or type tag runs its decoder right after the tag byte
\* and its result becomes the active alternative, and any other tag fails
\* with MalformedDefType after the tag byte only.
C5_DispatchFollowsTable ==
  /\ \A i \in 1..Len(stack) :
       (stack[i].fn = "loadType_DefType" /\ stack[i].pc = 1) =>
         LET b == input[stack[i].start + 1]
         IN /\ TableDecoder(b) # "none"
            /\ IF i < Len(stack)
               THEN /\ stack[i + 1].fn = TableDecoder(b)
                    /\ stack[i + 1].start = stack[i].start + 1
               ELSE ret.by = TableDecoder(b)
  /\ (ret.by = "loadType_DefType" /\ ret.start < Len(input)) =>
       LET b == input[ret.start + 1]
       IN IF TablePrim(b) # "none"
          THEN /\ ret.ok
               /\ ret.val = DefValType("PrimValType", PrimValTy(TablePrim(b)))
               /\ pos = ret.start + 1
          ELSE IF TableKind(b) = "none"
          THEN /\ ~ret.ok
               /\ ret.err = "MalformedDefType"
               /\ pos = ret.start + 1
          ELSE ret.ok =>
                 IF b \in {64, 65, 66}
                 THEN ret.val.alt = TableKind(b) /\ ret.val.sub = "None"
                 ELSE ret.val.alt = "DefValType" /\ ret.val.sub = TableKind(b)

\* A record of one field decoded through the dispatcher.
C5_Witness ==
  /\ ret.by = "loadType_DefType"
  /\ ret.ok
  /\ ret.val.sub = "Record"
  /\ status = "done"

VecDecoders ==
  {"loadType_Record", "loadType_Tuple", "loadType_Flags", "loadType_Enum",
   "loadType_VariantTy"}

EmptyError(d) ==
  CASE d = "loadType_Record" -> "MalformedRecordType"
    [] d = "loadType_Tuple" -> "MalformedTupleType"
    [] d = "loadType_Flags" -> "MalformedFlagsType"
    [] OTHER -> "None"

\* C6: when the element vector decoded successfully, Record, Tuple and
\* Flags fail on count 0 with their own Malformed* error, Enum and
\* VariantTy succeed on count 0 with an empty sequence, and all five
\* succeed on a count >= 1.
C6_EmptinessChecks ==
  [][\A d \in VecDecoders :
       (At(d) /\ Top.pc = 1 /\ ret.ok) =>
         /\ ret'.by = d
         /\ IF ret.val.n = 0 /\ EmptyError(d) # "None"
            THEN ~ret'.ok /\ ret'.err = EmptyError(d)
            ELSE /\ ret'.ok
                 /\ ret'.val.val.n = ret.val.n
                 /\ Len(ret'.val.val.items) = ret.val.n]_vars

\* A variant of one case decoded successfully.
C6_Witness ==
  /\ ret.by = "loadType_VariantTy"
  /\ ret.ok
  /\ ret.val.val.n >= 1

\* C7: the dispatcher is never nested deeper than the configured maximum.
C7_DepthBounded == DispatcherDepth <= ConfiguredMaxDepth

\* C8: a component declaration whose leading byte is 0x03 is an import
\* decoded from the bytes after it; for any other leading byte the
\* instance declaration is decoded starting at that same byte.
C8_ComponentDeclSelection ==
  \A i \in 1..(Len(stack) - 1) :
    stack[i].fn = "loadComponentDecl" =>
      /\ stack[i + 1].fn = "loadImportDecl" =>
           /\ input[stack[i].start + 1] = 3
           /\ stack[i + 1].start = stack[i].start + 1
      /\ stack[i + 1].fn = "loadInstanceDecl" =>
           stack[i + 1].start = stack[i].start

\* C9: the module type attempt of the core definition type decoder starts
\* at the position the function type attempt started at, and the module
\* type 0x50 0x00 decodes as the ModuleType alternative.
C9_ModuleTypeAlternative ==
  /\ \A i \in 1..(Len(stack) - 1) :
       (stack[i].fn = "loadType_CoreDefType" /\ stack[i + 1].fn = "loadType_ModuleType") =>
         stack[i + 1].start = stack[i].start
  /\ (entry = "loadType_CoreType" /\ status = "done" /\ input = <<80, 0>>) =>
       (ret.ok /\ ret.val.val.alt = "ModuleType")

\* C10: a top-level definition type decode does not stop before it has
\* returned a value or an error.
C10_ReturnsOrProgresses ==
  entry = "loadType_DefType" => (status = "done" \/ ENABLED Next)

====
